---- MODULE Spec2Model ----
(***************************************************************************)
(* Facade panel movement joints: the deflection curve, the panel layout    *)
(* and the per-panel geometry solver of deflection_calculations.py,        *)
(* panel_calculations.py and calculations.py.                              *)
(*                                                                         *)
(* Numbers.  The program computes in Python floats.  The model computes    *)
(* the same expressions, in the same order, over exact rationals <<n, d>>  *)
(* (d > 0, lowest terms); rounding of IEEE-754 doubles is not modelled.    *)
(* np.arcsin(s) is the angle in [-pi/2, pi/2] whose sine is s, and is NaN  *)
(* for |s| > 1; an angle is therefore held by its sine.  np.cos of such an *)
(* angle is the non-negative root of 1 - s^2, which is irrational in       *)
(* general: a float that depends on it is held as a + b * cos(theta) with  *)
(* a and b rational (a "surd number").                                     *)
(*                                                                         *)
(* One behaviour is one call: Init draws the function called and its       *)
(* arguments, the function's action computes what the call returns or      *)
(* raises.                                                                 *)
(***************************************************************************)
EXTENDS Integers, Sequences, FiniteSets, TLC

VARIABLES fn, args, pc, ret

vars == <<fn, args, pc, ret>>

\* ------------------------------------------------------------------ bounds

MaxSpan == 4
MaxU == 2
MaxHeight == 2
MaxTotal == 12
MaxPanels == 4
MaxJoint == 2

\* ------------------------------------------------------- exact rationals

AbsInt(n) == IF n < 0 THEN -n ELSE n

RECURSIVE GCD(_, _)
GCD(a, b) == IF b = 0 THEN a ELSE GCD(b, a % b)

Norm(n, d) ==
    LET g == GCD(AbsInt(n), AbsInt(d))
        s == IF d < 0 THEN -1 ELSE 1
    IN  <<(s * n) \div g, (s * d) \div g>>

Rat(n) == <<n, 1>>

Zero == Rat(0)

One == Rat(1)

Neg(a) == <<-a[1], a[2]>>

Add(a, b) ==
    LET g == GCD(a[2], b[2])
    IN  Norm(a[1] * (b[2] \div g) + b[1] * (a[2] \div g), a[2] * (b[2] \div g))

Sub(a, b) == Add(a, Neg(b))

Mul(a, b) ==
    LET g1 == GCD(AbsInt(a[1]), b[2])
        g2 == GCD(AbsInt(b[1]), a[2])
    IN  <<(a[1] \div g1) * (b[1] \div g2), (a[2] \div g2) * (b[2] \div g1)>>

\* b # Zero: the callers raise ZeroDivisionError before dividing.
Div(a, b) ==
    Mul(a, IF b[1] > 0 THEN <<b[2], b[1]>> ELSE <<-b[2], -b[1]>>)

Less(a, b) ==
    LET g == GCD(a[2], b[2])
    IN  a[1] * (b[2] \div g) < b[1] * (a[2] \div g)

Leq(a, b) == a = b \/ Less(a, b)

AbsRat(a) == <<AbsInt(a[1]), a[2]>>

Sign(a) == IF a[1] > 0 THEN 1 ELSE IF a[1] < 0 THEN -1 ELSE 0

\* ------------------------------------------------------- call results

Return(v) == [exc |-> "none", val |-> v]

Raise(e) == [exc |-> e, val |-> <<>>]

Pending == [exc |-> "pending", val |-> <<>>]

\* ------------------------------------------- deflection_calculations.py

\* A slip in the quartic: the second factor not squared.
PhiFixedFixedUnsquared(xi) ==
    Mul(Mul(Rat(16), Mul(xi, xi)), Sub(One, xi))

\* phi of the fixed-fixed (concrete) shape: 16.0 * xi**2 * (1.0 - xi)**2
PhiFixedFixed(xi) ==
    Mul(Mul(Rat(16), Mul(xi, xi)), Mul(Sub(One, xi), Sub(One, xi)))

\* A slip in the parabola: xi squared.
PhiQuadraticSkewed(xi) == Mul(Mul(Rat(4), Mul(xi, xi)), Sub(One, xi))

\* phi of the quadratic (steel) shape: 4.0 * xi * (1.0 - xi)
PhiQuadratic(xi) == Mul(Mul(Rat(4), xi), Sub(One, xi))

\* A slip in the normalisation: x used where xi = x / L is meant.
deflection_shape_unnormalised(x, u_max, L, shape) ==
    IF shape = "fixed-fixed"
    THEN Return(Mul(Neg(AbsRat(u_max)), PhiFixedFixed(x)))
    ELSE IF shape = "quadratic"
    THEN Return(Mul(Neg(AbsRat(u_max)), PhiQuadratic(x)))
    ELSE Raise("ValueError")

\* deflection_shape of deflection_calculations.py: -abs(u_max) * phi
deflection_shape(x, u_max, L, shape) ==
    LET xi == Div(x, L)
    IN  IF shape = "fixed-fixed"
        THEN Return(Mul(Neg(AbsRat(u_max)), PhiFixedFixed(xi)))
        ELSE IF shape = "quadratic"
        THEN Return(Mul(Neg(AbsRat(u_max)), PhiQuadratic(xi)))
        ELSE Raise("ValueError")

\* 'fixed-fixed' if frame_type == 'concrete' else 'quadratic'
ShapeOfFrame(frame_type) ==
    IF frame_type = "concrete" THEN "fixed-fixed" ELSE "quadratic"

get_deflection_at_position(x, u_max, L, frame_type) ==
    deflection_shape(x, u_max, L, ShapeOfFrame(frame_type))

\* ------------------------------------------------------- calculations.py

\* deflection_shape of calculations.py: u_max * phi
legacy_deflection_shape(x, u_max, L, shape) ==
    LET xi == Div(x, L)
    IN  IF shape = "fixed-fixed"
        THEN Return(Mul(u_max, PhiFixedFixed(xi)))
        ELSE IF shape = "quadratic"
        THEN Return(Mul(u_max, PhiQuadratic(xi)))
        ELSE Raise("ValueError")

\* calculate_panel_positions of calculations.py: the loop from panel i on
RECURSIVE LegacyLayoutLoop(_, _, _, _, _, _)
LegacyLayoutLoop(i, num_panels, current_x, panel_width, joint_width, panels) ==
    IF i >= num_panels
    THEN panels
    ELSE LET x_start == current_x
             x_end == Add(x_start, panel_width)
         IN  LegacyLayoutLoop(i + 1, num_panels, Add(x_end, joint_width),
                              panel_width, joint_width,
                              Append(panels, <<x_start, x_end>>))

\* calculate_panel_positions of calculations.py: (x_start, x_end) per panel
legacy_calculate_panel_positions(span, num_panels, joint_width) ==
    LET total_joint_width == Mul(Rat(num_panels - 1), joint_width)
        available_span == Sub(span, total_joint_width)
    IN  IF num_panels = 0
        THEN Raise("ZeroDivisionError")
        ELSE Return(LegacyLayoutLoop(0, num_panels, Zero,
                                     Div(available_span, Rat(num_panels)),
                                     joint_width, <<>>))

\* get_panel_corner_deflections: the entry of one panel
CornerDeflections(panel, span, u_max, shape, support_type) ==
    LET deflection_start == legacy_deflection_shape(panel[1], u_max, span, shape).val
        deflection_end == legacy_deflection_shape(panel[2], u_max, span, shape).val
        top == support_type = "top_hung"
    IN  [x_start |-> panel[1],
         x_end |-> panel[2],
         deflection_start |-> IF top THEN Neg(deflection_start) ELSE deflection_start,
         deflection_end |-> IF top THEN Neg(deflection_end) ELSE deflection_end]

\* get_panel_corner_deflections: one entry per panel, in the panels' order
get_panel_corner_deflections(panels, span, u_max, frame_type, support_type) ==
    Return([i \in 1..Len(panels) |->
               CornerDeflections(panels[i], span, u_max,
                                 ShapeOfFrame(frame_type), support_type)])

\* ------------------------------------------------- panel_calculations.py

\* A slip in the loop: the joint not added to current_x.
RECURSIVE LayoutLoopNoJoint(_, _, _, _, _, _, _)
LayoutLoopNoJoint(i, num_panels, current_x, panel_width, joint_width, single_span, panels) ==
    IF i >= num_panels
    THEN panels
    ELSE LET x_start == current_x
             x_end == Add(x_start, panel_width)
             span_number == IF Less(x_start, single_span) THEN 0 ELSE 1
         IN  LayoutLoopNoJoint(i + 1, num_panels, x_end,
                               panel_width, joint_width, single_span,
                               Append(panels, <<x_start, x_end, span_number>>))

\* A slip in the span test: <= where < is meant.
RECURSIVE LayoutLoopBoundaryInFirstSpan(_, _, _, _, _, _, _)
LayoutLoopBoundaryInFirstSpan(i, num_panels, current_x, panel_width, joint_width, single_span, panels) ==
    IF i >= num_panels
    THEN panels
    ELSE LET x_start == current_x
             x_end == Add(x_start, panel_width)
             span_number == IF Leq(x_start, single_span) THEN 0 ELSE 1
         IN  LayoutLoopBoundaryInFirstSpan(i + 1, num_panels, Add(x_end, joint_width),
                                           panel_width, joint_width, single_span,
                                           Append(panels, <<x_start, x_end, span_number>>))

\* calculate_panel_positions: the loop from panel i on
RECURSIVE LayoutLoop(_, _, _, _, _, _, _)
LayoutLoop(i, num_panels, current_x, panel_width, joint_width, single_span, panels) ==
    IF i >= num_panels
    THEN panels
    ELSE LET x_start == current_x
             x_end == Add(x_start, panel_width)
             span_number == IF Less(x_start, single_span) THEN 0 ELSE 1
         IN  LayoutLoop(i + 1, num_panels, Add(x_end, joint_width),
                        panel_width, joint_width, single_span,
                        Append(panels, <<x_start, x_end, span_number>>))

\* A slip in the width: the joints not taken off the span.
calculate_panel_positions_full_width(total_span, num_panels, joint_width) ==
    LET single_span == Div(total_span, Rat(2))
    IN  IF num_panels = 0
        THEN Raise("ZeroDivisionError")
        ELSE Return(LayoutLoop(0, num_panels, Zero,
                               Div(total_span, Rat(num_panels)),
                               joint_width, single_span, <<>>))

\* calculate_panel_positions: (x_start, x_end, span_number) per panel
calculate_panel_positions(total_span, num_panels, joint_width) ==
    LET single_span == Div(total_span, Rat(2))
        total_joint_width == Mul(Rat(num_panels - 1), joint_width)
        available_span == Sub(total_span, total_joint_width)
    IN  IF num_panels = 0
        THEN Raise("ZeroDivisionError")
        ELSE Return(LayoutLoop(0, num_panels, Zero,
                               Div(available_span, Rat(num_panels)),
                               joint_width, single_span, <<>>))

\* A float of the solver: a + b * cos(rotation_angle), or NaN.
Surd(a, b) == [nan |-> FALSE, a |-> a, b |-> b]

NaN == [nan |-> TRUE, a |-> Zero, b |-> Zero]

Exact(a) == Surd(a, Zero)

SurdAdd(p, q) ==
    IF p.nan \/ q.nan THEN NaN ELSE Surd(Add(p.a, q.a), Add(p.b, q.b))

SurdSub(p, q) ==
    IF p.nan \/ q.nan THEN NaN ELSE Surd(Sub(p.a, q.a), Sub(p.b, q.b))

\* panel_height * sin_theta, panel_height * cos_theta
Scale(h, q) == IF q.nan THEN NaN ELSE Surd(Mul(h, q.a), Mul(h, q.b))

\* np.arcsin: the angle in [-pi/2, pi/2] of sine s; nan outside [-1, 1]
ArcSin(s) ==
    IF Leq(AbsRat(s), One) THEN [nan |-> FALSE, sin |-> s]
                           ELSE [nan |-> TRUE, sin |-> Zero]

\* np.sin
SinOf(angle) == IF angle.nan THEN NaN ELSE Exact(angle.sin)

\* np.cos of an angle in [-pi/2, pi/2]: the non-negative root of 1 - sin^2
CosOf(angle) == IF angle.nan THEN NaN ELSE Surd(Zero, One)

\* np.degrees: the angle times 180/pi, held by the sine of the angle
DegreesOf(angle) == [nan |-> angle.nan, degrees_of_sin |-> angle.sin]

\* The top_hung branch (the else of the support_type test).  Python's float
\* division raises ZeroDivisionError for a zero panel_width.
TopHungGeometry(x_start, x_end, panel_height, deflection_start, deflection_end) ==
    LET panel_width == Sub(x_end, x_start)
        deflection_diff == Sub(deflection_end, deflection_start)
        rotation_angle == ArcSin(Div(Neg(deflection_diff), panel_width))
        top_left == <<Exact(x_start), Exact(deflection_start)>>
        top_right == <<Exact(x_end), Exact(deflection_end)>>
        cos_theta == CosOf(rotation_angle)
        sin_theta == SinOf(rotation_angle)
        bottom_left == <<SurdAdd(top_left[1], Scale(panel_height, sin_theta)),
                         SurdSub(top_left[2], Scale(panel_height, cos_theta))>>
        bottom_right == <<SurdAdd(top_right[1], Scale(panel_height, sin_theta)),
                          SurdSub(top_right[2], Scale(panel_height, cos_theta))>>
    IN  IF panel_width = Zero
        THEN Raise("ZeroDivisionError")
        ELSE Return([top_left |-> top_left, top_right |-> top_right,
                     bottom_left |-> bottom_left, bottom_right |-> bottom_right,
                     rotation_angle |-> rotation_angle,
                     rotation_degrees |-> DegreesOf(rotation_angle),
                     deflection_start |-> deflection_start,
                     deflection_end |-> deflection_end,
                     deflection_diff |-> deflection_diff])

\* The bottom_supported branch.
BottomSupportedGeometry(x_start, x_end, panel_height, deflection_start, deflection_end) ==
    LET panel_width == Sub(x_end, x_start)
        deflection_diff == Sub(deflection_end, deflection_start)
        rotation_angle == ArcSin(Div(Neg(deflection_diff), panel_width))
        bottom_left == <<Exact(x_start), Exact(deflection_start)>>
        bottom_right == <<Exact(x_end), Exact(deflection_end)>>
        cos_theta == CosOf(rotation_angle)
        sin_theta == SinOf(rotation_angle)
        top_left == <<SurdSub(bottom_left[1], Scale(panel_height, sin_theta)),
                      SurdAdd(bottom_left[2], Scale(panel_height, cos_theta))>>
        top_right == <<SurdSub(bottom_right[1], Scale(panel_height, sin_theta)),
                       SurdAdd(bottom_right[2], Scale(panel_height, cos_theta))>>
    IN  IF panel_width = Zero
        THEN Raise("ZeroDivisionError")
        ELSE Return([top_left |-> top_left, top_right |-> top_right,
                     bottom_left |-> bottom_left, bottom_right |-> bottom_right,
                     rotation_angle |-> rotation_angle,
                     rotation_degrees |-> DegreesOf(rotation_angle),
                     deflection_start |-> deflection_start,
                     deflection_end |-> deflection_end,
                     deflection_diff |-> deflection_diff])

\* A slip in the local coordinates: the span offset not taken off x_end.
calculate_panel_geometry_global_end(x_start, x_end, span_number, single_span, panel_height, u_max, frame_type, support_type) ==
    LET span_offset == Mul(Rat(span_number), single_span)
        x_local_start == Sub(x_start, span_offset)
        x_local_end == x_end
        deflection_start ==
            get_deflection_at_position(x_local_start, u_max, single_span, frame_type)
        deflection_end ==
            get_deflection_at_position(x_local_end, u_max, single_span, frame_type)
    IN  IF deflection_start.exc # "none" THEN deflection_start
        ELSE IF deflection_end.exc # "none" THEN deflection_end
        ELSE IF support_type = "bottom_supported"
        THEN BottomSupportedGeometry(x_start, x_end, panel_height,
                                     deflection_start.val, deflection_end.val)
        ELSE TopHungGeometry(x_start, x_end, panel_height,
                             deflection_start.val, deflection_end.val)

\* calculate_panel_geometry: the corners and the rotation of one panel
calculate_panel_geometry(x_start, x_end, span_number, single_span, panel_height, u_max, frame_type, support_type) ==
    LET span_offset == Mul(Rat(span_number), single_span)
        x_local_start == Sub(x_start, span_offset)
        x_local_end == Sub(x_end, span_offset)
        deflection_start ==
            get_deflection_at_position(x_local_start, u_max, single_span, frame_type)
        deflection_end ==
            get_deflection_at_position(x_local_end, u_max, single_span, frame_type)
    IN  IF deflection_start.exc # "none" THEN deflection_start
        ELSE IF deflection_end.exc # "none" THEN deflection_end
        ELSE IF support_type = "bottom_supported"
        THEN BottomSupportedGeometry(x_start, x_end, panel_height,
                                     deflection_start.val, deflection_end.val)
        ELSE TopHungGeometry(x_start, x_end, panel_height,
                             deflection_start.val, deflection_end.val)

\* geometry['x_start'] = x_start, ['x_end'] = x_end, ['span_number'] = span_number
Tagged(geometry, panel) ==
    [top_left |-> geometry.top_left, top_right |-> geometry.top_right,
     bottom_left |-> geometry.bottom_left, bottom_right |-> geometry.bottom_right,
     rotation_angle |-> geometry.rotation_angle,
     rotation_degrees |-> geometry.rotation_degrees,
     deflection_start |-> geometry.deflection_start,
     deflection_end |-> geometry.deflection_end,
     deflection_diff |-> geometry.deflection_diff,
     x_start |-> panel[1], x_end |-> panel[2], span_number |-> panel[3]]

\* A slip in the loop: the span number of the first panel kept for all.
RECURSIVE GeometriesLoopStaleSpan(_, _, _, _, _, _, _, _)
GeometriesLoopStaleSpan(i, panels, single_span, panel_height, u_max, frame_type, support_type, panel_geometries) ==
    IF i > Len(panels)
    THEN Return(panel_geometries)
    ELSE LET geometry ==
                 calculate_panel_geometry(panels[i][1], panels[i][2], panels[1][3],
                                          single_span, panel_height, u_max,
                                          frame_type, support_type)
         IN  IF geometry.exc # "none"
             THEN geometry
             ELSE GeometriesLoopStaleSpan(i + 1, panels, single_span, panel_height,
                                          u_max, frame_type, support_type,
                                          Append(panel_geometries,
                                                 Tagged(geometry.val, panels[i])))

\* get_all_panel_geometries: the loop from the i-th panel on; an exception of
\* calculate_panel_geometry leaves the loop and the function
RECURSIVE GeometriesLoop(_, _, _, _, _, _, _, _)
GeometriesLoop(i, panels, single_span, panel_height, u_max, frame_type, support_type, panel_geometries) ==
    IF i > Len(panels)
    THEN Return(panel_geometries)
    ELSE LET geometry ==
                 calculate_panel_geometry(panels[i][1], panels[i][2], panels[i][3],
                                          single_span, panel_height, u_max,
                                          frame_type, support_type)
         IN  IF geometry.exc # "none"
             THEN geometry
             ELSE GeometriesLoop(i + 1, panels, single_span, panel_height, u_max,
                                 frame_type, support_type,
                                 Append(panel_geometries,
                                        Tagged(geometry.val, panels[i])))

\* get_all_panel_geometries: the geometry of every panel, in the panels' order
get_all_panel_geometries(panels, single_span, panel_height, u_max, frame_type, support_type) ==
    GeometriesLoop(1, panels, single_span, panel_height, u_max, frame_type,
                   support_type, <<>>)

\* ------------------------------------------------------------ the calls

Shapes == {"fixed-fixed", "quadratic", "cubic"}

Frames == {"concrete", "steel", "timber"}

Supports == {"top_hung", "bottom_supported", "side_fixed"}

\* deflection_shape(x, u_max, L, shape): x on the half-unit grid around [0, L]
ShapeArgs ==
    {[x |-> Norm(k, 2), u_max |-> Rat(u), L |-> Rat(l), shape |-> s] :
        k \in (-2)..(2 * MaxSpan + 2), u \in (-MaxU)..MaxU, l \in 1..MaxSpan,
        s \in Shapes}

\* get_deflection_at_position(x, u_max, L, frame_type)
PositionArgs ==
    {[x |-> Norm(k, 2), u_max |-> Rat(u), L |-> Rat(l), frame_type |-> f] :
        k \in (-2)..(2 * MaxSpan + 2), u \in (-MaxU)..MaxU, l \in 1..MaxSpan,
        f \in Frames}

\* main.py's default inputs: a span of 6000 mm, 4 panels, joints of 5 mm
ExampleLayout ==
    [total_span |-> Rat(6000), num_panels |-> 4, joint_width |-> Rat(5)]

\* calculate_panel_positions(total_span, num_panels, joint_width)
LayoutArgs ==
    {[total_span |-> Rat(t), num_panels |-> n, joint_width |-> Rat(j)] :
        t \in 0..MaxTotal, n \in (-1)..MaxPanels, j \in (-1)..MaxJoint}
    \cup {ExampleLayout}

\* main.py: the panels of calculate_panel_positions(span_width, num_panels,
\* joint_width), then their corner deflections
CornerArgs ==
    {[span |-> Rat(l), num_panels |-> n, joint_width |-> Rat(j),
      u_max |-> Rat(u), frame_type |-> f, support_type |-> s] :
        l \in 1..MaxSpan, n \in 1..MaxPanels, j \in 0..MaxJoint,
        u \in (-MaxU)..MaxU, f \in Frames, s \in Supports}

\* calculate_panel_geometry(x_start, x_end, span_number, single_span,
\* panel_height, u_max, frame_type, support_type), x_start <= x_end
GeometryArgs ==
    {[x_start |-> Rat(a), x_end |-> Rat(b), span_number |-> n,
      single_span |-> Rat(l), panel_height |-> Rat(h), u_max |-> Rat(u),
      frame_type |-> f, support_type |-> s] :
        a \in 0..(2 * MaxSpan), b \in 0..(2 * MaxSpan), n \in 0..1,
        l \in 1..MaxSpan, h \in 1..MaxHeight, u \in (-MaxU)..MaxU,
        f \in Frames, s \in Supports}

\* get_all_panel_geometries over the panels calculate_panel_positions lays
\* out on two spans (total_span = 2 * single_span), as laid out or reversed,
\* for panels of the greatest height
SolveArgs ==
    {[single_span |-> Rat(l), num_panels |-> n, joint_width |-> Rat(j),
      panel_height |-> Rat(h), u_max |-> Rat(u), frame_type |-> f,
      support_type |-> s, reversed |-> r] :
        l \in 1..MaxSpan, n \in 1..MaxPanels, j \in 0..MaxJoint,
        h \in {MaxHeight}, u \in (-1)..MaxU, f \in Frames, s \in Supports,
        r \in BOOLEAN}

\* total_span of a two-span layout
TotalSpan(single_span) == Mul(Rat(2), single_span)

\* the panels get_all_panel_geometries is called with
RECURSIVE Reverse(_)
Reverse(q) == IF q = <<>> THEN <<>> ELSE Append(Reverse(Tail(q)), Head(q))

PanelsOf(a) ==
    LET laid == calculate_panel_positions(TotalSpan(a.single_span), a.num_panels,
                                          a.joint_width).val
    IN  IF a.reversed THEN Reverse(laid) ELSE laid

\* The positions drawn for a span L reach one unit past its end.
InSpanGrid(x, L) == Leq(x, Add(L, One))

Init ==
    /\ pc = "call"
    /\ ret = Pending
    /\ \/ fn = "deflection_shape" /\ args \in ShapeArgs
                                  /\ InSpanGrid(args.x, args.L)
       \/ fn = "legacy_deflection_shape" /\ args \in ShapeArgs
                                         /\ InSpanGrid(args.x, args.L)
       \/ fn = "get_deflection_at_position" /\ args \in PositionArgs
                                            /\ InSpanGrid(args.x, args.L)
       \/ fn = "calculate_panel_positions" /\ args \in LayoutArgs
       \/ fn = "legacy_calculate_panel_positions" /\ args \in LayoutArgs
       \/ fn = "get_panel_corner_deflections" /\ args \in CornerArgs
       \/ fn = "calculate_panel_geometry" /\ args \in GeometryArgs
                                          /\ Leq(args.x_start, args.x_end)
                                          /\ Leq(args.x_end, Mul(Rat(2), args.single_span))
       \/ fn = "get_all_panel_geometries"
          /\ args \in SolveArgs
          /\ Less(Mul(Rat(args.num_panels - 1), args.joint_width),
                  TotalSpan(args.single_span))

Finish(result) ==
    /\ ret' = result
    /\ pc' = "done"
    /\ UNCHANGED <<fn, args>>

DeflectionShape ==
    /\ pc = "call" /\ fn = "deflection_shape"
    /\ Finish(deflection_shape(args.x, args.u_max, args.L, args.shape))

LegacyDeflectionShape ==
    /\ pc = "call" /\ fn = "legacy_deflection_shape"
    /\ Finish(legacy_deflection_shape(args.x, args.u_max, args.L, args.shape))

GetDeflectionAtPosition ==
    /\ pc = "call" /\ fn = "get_deflection_at_position"
    /\ Finish(get_deflection_at_position(args.x, args.u_max, args.L, args.frame_type))

CalculatePanelPositions ==
    /\ pc = "call" /\ fn = "calculate_panel_positions"
    /\ Finish(calculate_panel_positions(args.total_span, args.num_panels,
                                        args.joint_width))

LegacyCalculatePanelPositions ==
    /\ pc = "call" /\ fn = "legacy_calculate_panel_positions"
    /\ Finish(legacy_calculate_panel_positions(args.total_span, args.num_panels,
                                               args.joint_width))

GetPanelCornerDeflections ==
    /\ pc = "call" /\ fn = "get_panel_corner_deflections"
    /\ Finish(get_panel_corner_deflections(
                  legacy_calculate_panel_positions(args.span, args.num_panels,
                                                   args.joint_width).val,
                  args.span, args.u_max, args.frame_type, args.support_type))

CalculatePanelGeometry ==
    /\ pc = "call" /\ fn = "calculate_panel_geometry"
    /\ Finish(calculate_panel_geometry(args.x_start, args.x_end, args.span_number,
                                       args.single_span, args.panel_height,
                                       args.u_max, args.frame_type,
                                       args.support_type))

GetAllPanelGeometries ==
    /\ pc = "call" /\ fn = "get_all_panel_geometries"
    /\ Finish(get_all_panel_geometries(PanelsOf(args), args.single_span,
                                       args.panel_height, args.u_max,
                                       args.frame_type, args.support_type))

Next ==
    \/ DeflectionShape
    \/ LegacyDeflectionShape
    \/ GetDeflectionAtPosition
    \/ CalculatePanelPositions
    \/ LegacyCalculatePanelPositions
    \/ GetPanelCornerDeflections
    \/ CalculatePanelGeometry
    \/ GetAllPanelGeometries

Spec == Init /\ [][Next]_vars

\* ------------------------------------------------- what the claims use

ValidShapes == {"fixed-fixed", "quadratic"}

ValidFrames == {"concrete", "steel"}

ValidSupports == {"top_hung", "bottom_supported"}

Done(f) == pc = "done" /\ fn = f

\* x in [0, L]
InSpan(x, L) == Leq(Zero, x) /\ Leq(x, L)

\* cos^2 of an angle held by its sine
CosSquared(angle) == Sub(One, Mul(angle.sin, angle.sin))

\* (pa + pb c)(qa + qb c) with c * c = r
SurdMul(p, q, r) ==
    IF p.nan \/ q.nan THEN NaN
    ELSE Surd(Add(Mul(p.a, q.a), Mul(Mul(p.b, q.b), r)),
              Add(Mul(p.a, q.b), Mul(p.b, q.a)))

\* a + b c = 0 where c >= 0 and c * c = r: b = 0 and a = 0, or c = -a/b
SurdIsZero(p, r) ==
    /\ ~p.nan
    /\ IF p.b = Zero THEN p.a = Zero
       ELSE LET q == Div(p.a, p.b)
            IN  Leq(q, Zero) /\ Mul(q, q) = r

SurdEq(p, q, r) == SurdIsZero(SurdSub(p, q), r)

\* the vector from point p to point q
Vec(p, q) == <<SurdSub(q[1], p[1]), SurdSub(q[2], p[2])>>

Dot(v, w, r) == SurdAdd(SurdMul(v[1], w[1], r), SurdMul(v[2], w[2], r))

Finite(g) ==
    \A c \in {g.top_left, g.top_right, g.bottom_left, g.bottom_right} :
        ~c[1].nan /\ ~c[2].nan

\* The corners of g are those of a rectangle of height h: the support edge
\* is perpendicular to the side edge, opposite sides are equally long, the
\* side edges are h long, the diagonals are equally long.
IsRectangle(g, h, support_type) ==
    LET r == CosSquared(g.rotation_angle)
        support == IF support_type = "bottom_supported"
                   THEN Vec(g.bottom_left, g.bottom_right)
                   ELSE Vec(g.top_left, g.top_right)
        left == Vec(g.bottom_left, g.top_left)
        right == Vec(g.bottom_right, g.top_right)
        top == Vec(g.top_left, g.top_right)
        bottom == Vec(g.bottom_left, g.bottom_right)
        diag1 == Vec(g.bottom_left, g.top_right)
        diag2 == Vec(g.bottom_right, g.top_left)
    IN  /\ SurdIsZero(Dot(support, left, r), r)
        /\ SurdEq(Dot(top, top, r), Dot(bottom, bottom, r), r)
        /\ SurdEq(Dot(left, left, r), Dot(right, right, r), r)
        /\ SurdEq(Dot(left, left, r), Exact(Mul(h, h)), r)
        /\ SurdEq(Dot(diag1, diag1, r), Dot(diag2, diag2, r), r)

\* C1: every non-degenerate panel solved by calculate_panel_geometry, in
\* either support mode and whatever the deflection difference, has the corners
\* of an exact rectangle of height panel_height.  (Stated for the panels whose
\* corners are all finite, so that a NaN rotation is not what refutes it.)
C1_CornersFormRectangle ==
    (/\ Done("calculate_panel_geometry")
     /\ Less(args.x_start, args.x_end)
     /\ args.support_type \in ValidSupports
     /\ ret.exc = "none"
     /\ Finite(ret.val))
    => IsRectangle(ret.val, args.panel_height, args.support_type)

\* angle = atan2(dy, dx) for dx > 0: the angle in (-pi/2, pi/2) of tangent
\* dy/dx, that is sin * dx = dy * cos with cos > 0
IsAtan2(angle, dy, dx) ==
    /\ ~angle.nan
    /\ Less(Zero, CosSquared(angle))
    /\ SurdIsZero(Surd(Mul(angle.sin, dx), Neg(dy)), CosSquared(angle))

\* C2: the rotation angle of a non-degenerate panel is the signed angle of
\* the support-edge secant, atan2(dEnd - dStart, xEnd - xStart): it has the
\* sign of dEnd - dStart, and is 0 when dEnd = dStart.
C2_RotationIsSecantAngle ==
    (/\ Done("calculate_panel_geometry")
     /\ Less(args.x_start, args.x_end)
     /\ args.support_type \in ValidSupports
     /\ ret.exc = "none"
     /\ Finite(ret.val))
    => /\ IsAtan2(ret.val.rotation_angle, ret.val.deflection_diff,
                  Sub(args.x_end, args.x_start))
       /\ Sign(ret.val.rotation_angle.sin) = Sign(ret.val.deflection_diff)

\* C3: a zero-width panel (x_start = x_end) is solved without an error in
\* both support modes: the four corners are the support point
\* (x_start, dStart), the rotation angle is 0 and deflection_diff is 0.
C3_ZeroWidthPanelCollapses ==
    (/\ Done("calculate_panel_geometry")
     /\ args.x_start = args.x_end
     /\ args.support_type \in ValidSupports)
    => /\ ret.exc = "none"
       /\ \A c \in {ret.val.top_left, ret.val.top_right,
                    ret.val.bottom_left, ret.val.bottom_right} :
              c = <<Exact(args.x_start), Exact(ret.val.deflection_start)>>
       /\ ret.val.rotation_angle = [nan |-> FALSE, sin |-> Zero]
       /\ ret.val.deflection_diff = Zero

LayoutCall ==
    Done("calculate_panel_positions") \/ Done("legacy_calculate_panel_positions")

\* n >= 1, j >= 0, total > (n - 1) * j
ValidLayout(total, n, j) ==
    /\ n >= 1
    /\ Leq(Zero, j)
    /\ Less(Mul(Rat(n - 1), j), total)

RECURSIVE SumWidths(_, _)
SumWidths(panels, i) ==
    IF i = 0 THEN Zero
    ELSE Add(SumWidths(panels, i - 1), Sub(panels[i][2], panels[i][1]))

\* C4: for valid arguments both calculate_panel_positions return exactly n
\* intervals with x_start < x_end, strictly increasing and not overlapping,
\* with a gap of exactly joint_width between neighbours, whose widths and
\* the n - 1 joints sum to the total span.
C4_LayoutPartitionsSpan ==
    (LayoutCall /\ ValidLayout(args.total_span, args.num_panels, args.joint_width))
    => /\ ret.exc = "none"
       /\ Len(ret.val) = args.num_panels
       /\ \A i \in 1..Len(ret.val) : Less(ret.val[i][1], ret.val[i][2])
       /\ \A i \in 1..(Len(ret.val) - 1) :
              /\ Less(ret.val[i][1], ret.val[i + 1][1])
              /\ Leq(ret.val[i][2], ret.val[i + 1][1])
              /\ Sub(ret.val[i + 1][1], ret.val[i][2]) = args.joint_width
       /\ Add(SumWidths(ret.val, Len(ret.val)),
              Mul(Rat(args.num_panels - 1), args.joint_width)) = args.total_span

\* C4's case: a valid layout of three or more panels with joints between them
C4_Witness ==
    /\ Done("calculate_panel_positions")
    /\ ValidLayout(args.total_span, args.num_panels, args.joint_width)
    /\ args.num_panels >= 3
    /\ Less(Zero, args.joint_width)
    /\ ret.exc = "none"
    /\ Len(ret.val) = args.num_panels
    /\ ret.val[3][1] = Add(ret.val[2][2], args.joint_width)

\* C5: calculate_panel_positions rejects panelCount < 1, jointWidth < 0 and
\* totalSpan <= (panelCount - 1) * jointWidth with an error, and returns no
\* intervals for them.  (Any exception raised is counted as the rejection.)
C5_InvalidLayoutRejected ==
    (LayoutCall /\ ~ValidLayout(args.total_span, args.num_panels, args.joint_width))
    => ret.exc # "none"

\* C6: an unrecognised frame, shape or support tag fails with an error in the
\* panel solver, in get_deflection_at_position and in deflection_shape; it is
\* never treated as one of the valid tags.  (Any exception raised is counted.)
C6_UnknownTagRejected ==
    /\ (Done("calculate_panel_geometry")
        /\ (args.frame_type \notin ValidFrames
            \/ args.support_type \notin ValidSupports))
       => ret.exc # "none"
    /\ (Done("get_deflection_at_position") /\ args.frame_type \notin ValidFrames)
       => ret.exc # "none"
    /\ ((Done("deflection_shape") \/ Done("legacy_deflection_shape"))
        /\ args.shape \notin ValidShapes)
       => ret.exc # "none"

\* -|U| * phi(x / L), phi by the shape
Downward(x, u_max, L, shape) ==
    LET xi == Div(x, L)
        one_minus == Sub(One, xi)
        phi == IF shape = "fixed-fixed"
               THEN Mul(Rat(16), Mul(Mul(xi, xi), Mul(one_minus, one_minus)))
               ELSE Mul(Rat(4), Mul(xi, one_minus))
    IN  Mul(Neg(AbsRat(u_max)), phi)

\* C7: for both shapes and every x in [0, L], every deflection_shape of the
\* repository returns -|U| * phi(x / L), which is <= 0 whatever the sign of U,
\* and so are the corner deflections get_panel_corner_deflections derives.
C7_DeflectionAlwaysDownward ==
    /\ ((Done("deflection_shape") \/ Done("legacy_deflection_shape"))
        /\ args.shape \in ValidShapes /\ InSpan(args.x, args.L))
       => /\ ret.exc = "none"
          /\ ret.val = Downward(args.x, args.u_max, args.L, args.shape)
          /\ Leq(ret.val, Zero)
    /\ (Done("get_panel_corner_deflections") /\ args.frame_type \in ValidFrames)
       => \A i \in DOMAIN ret.val :
              /\ InSpan(ret.val[i].x_start, args.span)
                 => ret.val[i].deflection_start =
                        Downward(ret.val[i].x_start, args.u_max, args.span,
                                 ShapeOfFrame(args.frame_type))
              /\ InSpan(ret.val[i].x_end, args.span)
                 => ret.val[i].deflection_end =
                        Downward(ret.val[i].x_end, args.u_max, args.span,
                                 ShapeOfFrame(args.frame_type))

EvaluatorCall ==
    /\ \/ Done("deflection_shape") /\ args.shape \in ValidShapes
       \/ Done("get_deflection_at_position")
    /\ ret.exc = "none"

\* C8: for any span L > 0, any U and either shape, the deflection at x = 0
\* and at x = L is exactly 0.
C8_ZeroAtSupports ==
    (/\ \/ Done("deflection_shape") /\ args.shape \in ValidShapes
        \/ Done("legacy_deflection_shape") /\ args.shape \in ValidShapes
        \/ Done("get_deflection_at_position")
     /\ (args.x = Zero \/ args.x = args.L))
    => ret = Return(Zero)

\* C8's case: the far support of a loaded span
C8_Witness ==
    /\ Done("deflection_shape")
    /\ args.shape \in ValidShapes
    /\ args.x = args.L
    /\ args.u_max # Zero
    /\ ret = Return(Zero)

\* C9: for both shapes the deflection at midspan x = L/2 is exactly -|U|, the
\* quadratic shape gives -0.75 |U| at the quarter point x = L/4 (-7.5 for
\* U = 10), and for x in [0, L] the magnitude never exceeds |U|.
C9_PeakAtMidspan ==
    EvaluatorCall
    => /\ Mul(Rat(2), args.x) = args.L => ret.val = Neg(AbsRat(args.u_max))
       /\ (Mul(Rat(4), args.x) = args.L /\ Done("deflection_shape")
           /\ args.shape = "quadratic")
          => ret.val = Mul(<<-3, 4>>, AbsRat(args.u_max))
       /\ InSpan(args.x, args.L) => Leq(AbsRat(ret.val), AbsRat(args.u_max))

\* C9's case: midspan of a loaded fixed-fixed span
C9_Witness ==
    /\ Done("deflection_shape")
    /\ args.shape = "fixed-fixed"
    /\ Mul(Rat(2), args.x) = args.L
    /\ args.u_max = Rat(MaxU)
    /\ ret = Return(Rat(-MaxU))

\* C10: the curve is mirror-symmetric about midspan: for both shapes and
\* every x in [0, L], deflection_shape(x, U, L) = deflection_shape(L - x, U, L).
C10_MirrorSymmetric ==
    (/\ Done("deflection_shape")
     /\ args.shape \in ValidShapes
     /\ InSpan(args.x, args.L))
    => ret = deflection_shape(Sub(args.L, args.x), args.u_max, args.L, args.shape)

\* C10's case: a point strictly between a support and midspan, deflected
C10_Witness ==
    /\ Done("deflection_shape")
    /\ args.shape \in ValidShapes
    /\ Less(Zero, args.x)
    /\ Less(Mul(Rat(2), args.x), args.L)
    /\ ret.exc = "none"
    /\ Less(ret.val, Zero)

\* C11: in the two-span layout a panel's span index is 0 exactly when its
\* x_start is strictly below the span boundary total_span / 2, and 1 otherwise
\* (1 for a panel that starts on the boundary); a panel that straddles the
\* boundary is one unsplit interval of span index 0, so there are n intervals.
C11_SpanIndexByStart ==
    (/\ Done("calculate_panel_positions")
     /\ ValidLayout(args.total_span, args.num_panels, args.joint_width))
    => LET boundary == Div(args.total_span, Rat(2))
       IN  /\ ret.exc = "none"
           /\ Len(ret.val) = args.num_panels
           /\ \A i \in 1..Len(ret.val) :
                  /\ ret.val[i][3] \in {0, 1}
                  /\ ret.val[i][3] = 0 <=> Less(ret.val[i][1], boundary)
                  /\ Less(ret.val[i][1], boundary) /\ Less(boundary, ret.val[i][2])
                     => /\ ret.val[i][3] = 0
                        /\ \A k \in 1..Len(ret.val) :
                               ret.val[k][1] = boundary => k = i

\* C11's case: a layout with a panel that straddles the span boundary
C11_Witness ==
    /\ Done("calculate_panel_positions")
    /\ ValidLayout(args.total_span, args.num_panels, args.joint_width)
    /\ ret.exc = "none"
    /\ \E i \in 1..Len(ret.val) :
           /\ Less(ret.val[i][1], Div(args.total_span, Rat(2)))
           /\ Less(Div(args.total_span, Rat(2)), ret.val[i][2])
           /\ ret.val[i][3] = 0
           /\ i < Len(ret.val)
           /\ ret.val[i + 1][3] = 1

\* the sign of a + b c where c >= 0 and c * c = r
SurdSign(p, r) ==
    IF r = Zero \/ p.b = Zero THEN Sign(p.a)
    ELSE IF p.a = Zero \/ Sign(p.a) = Sign(p.b) THEN Sign(p.b)
    ELSE LET aa == Mul(p.a, p.a)
             bbr == Mul(Mul(p.b, p.b), r)
         IN  IF aa = bbr THEN 0
             ELSE IF Less(bbr, aa) THEN Sign(p.a) ELSE Sign(p.b)

SurdLess(p, q, r) == ~p.nan /\ ~q.nan /\ SurdSign(SurdSub(q, p), r) = 1

\* the curve sampled at a global position of the panel's span
Sampled(x) ==
    get_deflection_at_position(
        Sub(x, Mul(Rat(args.span_number), args.single_span)),
        args.u_max, args.single_span, args.frame_type).val

\* C12: the two support-edge corners of a non-degenerate panel are pinned to
\* the sampled curve at (x_start, dStart) and (x_end, dEnd), the bottom corners
\* when bottom-supported and the top corners when top-hung, and with
\* panel_height > 0 each top corner lies above the bottom corner under it.
\* (Stated for the panels whose corners are all finite.)
C12_SupportPinnedTopAbove ==
    (/\ Done("calculate_panel_geometry")
     /\ Less(args.x_start, args.x_end)
     /\ args.support_type \in ValidSupports
     /\ ret.exc = "none"
     /\ Finite(ret.val))
    => LET g == ret.val
           r == CosSquared(g.rotation_angle)
           start == <<Exact(args.x_start), Exact(Sampled(args.x_start))>>
           end == <<Exact(args.x_end), Exact(Sampled(args.x_end))>>
       IN  /\ IF args.support_type = "bottom_supported"
              THEN g.bottom_left = start /\ g.bottom_right = end
              ELSE g.top_left = start /\ g.top_right = end
           /\ SurdLess(g.bottom_left[2], g.top_left[2], r)
           /\ SurdLess(g.bottom_right[2], g.top_right[2], r)

\* C13: get_all_panel_geometries returns one geometry per interval, in the
\* intervals' order, and the i-th is what calculate_panel_geometry returns for
\* the i-th interval alone, with that interval's x_start, x_end and
\* span_number added: no panel depends on another or on the order.
C13_FanOutPerPanel ==
    Done("get_all_panel_geometries")
    => LET panels == PanelsOf(args)
       IN  /\ ret.exc = "none"
           /\ Len(ret.val) = Len(panels)
           /\ \A i \in 1..Len(panels) :
                  LET alone ==
                          calculate_panel_geometry(
                              panels[i][1], panels[i][2], panels[i][3],
                              args.single_span, args.panel_height, args.u_max,
                              args.frame_type, args.support_type)
                      solved == ret.val[i]
                  IN  /\ alone.exc = "none"
                      /\ DOMAIN solved =
                             DOMAIN alone.val \cup {"x_start", "x_end", "span_number"}
                      /\ \A f \in DOMAIN alone.val : solved[f] = alone.val[f]
                      /\ solved.x_start = panels[i][1]
                      /\ solved.x_end = panels[i][2]
                      /\ solved.span_number = panels[i][3]

\* C13's case: three or more panels over both spans, given in reverse order
C13_Witness ==
    /\ Done("get_all_panel_geometries")
    /\ args.reversed
    /\ args.u_max # Zero
    /\ ret.exc = "none"
    /\ Len(ret.val) >= 3
    /\ ret.val[1].span_number = 1
    /\ ret.val[Len(ret.val)].x_start = Zero
    /\ ret.val[1].deflection_diff # Zero

\* C14: for every non-degenerate panel with valid tags calculate_panel_geometry
\* returns, without a runtime failure, a defined rotation angle and four
\* defined corners, also when |dEnd - dStart| exceeds the panel width.
\* (Stated for the panels that lie within their span.)
C14_GeometryAlwaysDefined ==
    (/\ Done("calculate_panel_geometry")
     /\ Less(args.x_start, args.x_end)
     /\ InSpan(Sub(args.x_start, Mul(Rat(args.span_number), args.single_span)),
               args.single_span)
     /\ InSpan(Sub(args.x_end, Mul(Rat(args.span_number), args.single_span)),
               args.single_span)
     /\ args.frame_type \in ValidFrames
     /\ args.support_type \in ValidSupports)
    => /\ ret.exc = "none"
       /\ ~ret.val.rotation_angle.nan
       /\ ~ret.val.rotation_degrees.nan
       /\ Finite(ret.val)

\* the (x_start, x_end) pairs of a list of panels
Pairs(panels) == [i \in 1..Len(panels) |-> <<panels[i][1], panels[i][2]>>]

\* C15: for valid arguments all panels have the width
\* w = (total - (n - 1) * j) / n, panel k (from 0) starts at k * (w + j), the
\* first at 0, and the last ends at total; layout(6000, 4, 5) gives
\* w = 1496.25, panel 0 = (0, 1496.25) and panel 3 = (4503.75, 6000); both
\* calculate_panel_positions give the same (x_start, x_end) pairs.
C15_EqualWidthsFromZero ==
    (LayoutCall /\ ValidLayout(args.total_span, args.num_panels, args.joint_width))
    => LET n == args.num_panels
           j == args.joint_width
           w == Div(Sub(args.total_span, Mul(Rat(n - 1), j)), Rat(n))
       IN  /\ ret.exc = "none"
           /\ Len(ret.val) = n
           /\ \A k \in 0..(n - 1) :
                  /\ ret.val[k + 1][1] = Mul(Rat(k), Add(w, j))
                  /\ Sub(ret.val[k + 1][2], ret.val[k + 1][1]) = w
           /\ ret.val[1][1] = Zero
           /\ ret.val[n][2] = args.total_span
           /\ Pairs(ret.val) =
                  IF fn = "calculate_panel_positions"
                  THEN legacy_calculate_panel_positions(args.total_span, n, j).val
                  ELSE Pairs(calculate_panel_positions(args.total_span, n, j).val)
           /\ args = ExampleLayout
              => /\ w = <<5985, 4>>
                 /\ Pairs(ret.val)[1] = <<Zero, <<5985, 4>>>>
                 /\ Pairs(ret.val)[4] = <<<<18015, 4>>, Rat(6000)>>

\* C15's case: the layout of 6000 mm in 4 panels with joints of 5 mm
C15_Witness ==
    /\ Done("calculate_panel_positions")
    /\ args = ExampleLayout
    /\ ret = Return(<< <<Zero, <<5985, 4>>, 0>>,
                      <<<<6005, 4>>, <<5995, 2>>, 0>>,
                      <<<<6005, 2>>, <<17995, 4>>, 1>>,
                      <<<<18015, 4>>, Rat(6000), 1>> >>)

\* the point p moved by h * (sin(theta), -cos(theta))
Translated(p, h, angle) ==
    <<SurdAdd(p[1], Scale(h, SinOf(angle))),
      SurdSub(p[2], Scale(h, CosOf(angle)))>>

\* the same call with the panel standing on its bottom edge
BottomSupportedCall ==
    calculate_panel_geometry(args.x_start, args.x_end, args.span_number,
                             args.single_span, args.panel_height, args.u_max,
                             args.frame_type, "bottom_supported").val

\* C16: for the same interval, span, amplitude, frame type and panel height
\* the top_hung result has the rotation angle, deflection_start,
\* deflection_end and deflection_diff of the bottom_supported result, and each
\* of its corners is the bottom_supported corner moved by
\* panel_height * (sin(theta), -cos(theta)).
\* (Stated for the non-degenerate panels that lie within their span.)
C16_SupportModeOnlyTranslates ==
    (/\ Done("calculate_panel_geometry")
     /\ args.support_type = "top_hung"
     /\ args.frame_type \in ValidFrames
     /\ Less(args.x_start, args.x_end)
     /\ InSpan(Sub(args.x_start, Mul(Rat(args.span_number), args.single_span)),
               args.single_span)
     /\ InSpan(Sub(args.x_end, Mul(Rat(args.span_number), args.single_span)),
               args.single_span))
    => LET t == ret.val
           b == BottomSupportedCall
           h == args.panel_height
       IN  /\ ret.exc = "none"
           /\ t.rotation_angle = b.rotation_angle
           /\ t.deflection_start = b.deflection_start
           /\ t.deflection_end = b.deflection_end
           /\ t.deflection_diff = b.deflection_diff
           /\ t.top_left = Translated(b.top_left, h, b.rotation_angle)
           /\ t.top_right = Translated(b.top_right, h, b.rotation_angle)
           /\ t.bottom_left = Translated(b.bottom_left, h, b.rotation_angle)
           /\ t.bottom_right = Translated(b.bottom_right, h, b.rotation_angle)

\* the local coordinate of x for a solved panel g
LocalOf(x, g) == Sub(x, Mul(Rat(g.span_number), args.single_span))

\* the panel g crosses the boundary between the two spans
Straddles(g) ==
    Less(g.x_start, args.single_span) /\ Less(args.single_span, g.x_end)

\* a solve of a valid two-span layout with a known frame type
SolvedLayout ==
    Done("get_all_panel_geometries") /\ args.frame_type \in ValidFrames

====
